---- MODULE Spec2Model ----
(***************************************************************************)
(* Model of the Account REST service (service/routes.py).                  *)
(*                                                                         *)
(* The routing layer is translated from src/service/routes.py.  The        *)
(* Account record (service/models.py) and the error handlers               *)
(* (service/common/error_handlers.py) are not part of the sources at hand; *)
(* they are modelled from sections 3, 4.1, 6 and 7 of the specification.   *)
(*                                                                         *)
(* One action per route handler; a handler runs to completion (one request *)
(* per invocation, section 5).  The end of the request, where the session  *)
(* is released (section 5: the session is scoped to the request lifetime   *)
(* by the framework), is a step of its own, RequestTeardown; routes.py     *)
(* itself never ends or rolls back a session.  What request.get_json()     *)
(* answers to a body of a non-JSON media type depends on the installed     *)
(* framework release; the model admits every answer a release gives.       *)
(***************************************************************************)
EXTENDS Integers, Sequences, FiniteSets, TLC

\* ------------------------------------------------------------------ bounds
\* Number of identities the store's sequence hands out before creation stops.
MaxId == 2

\* --------------------------------------------------------- HTTP status codes
HTTP_200_OK == 200
HTTP_201_CREATED == 201
HTTP_204_NO_CONTENT == 204
HTTP_400_BAD_REQUEST == 400
HTTP_404_NOT_FOUND == 404
HTTP_415_UNSUPPORTED_MEDIA_TYPE == 415

\* Python's None: an attribute that has no value.
None == "None"

\* ------------------------------------------------------- mappings (dict)
has(d, k) == k \in DOMAIN d

get(d, k) == IF k \in DOMAIN d THEN d[k] ELSE None

set(d, k, v) == [x \in (DOMAIN d) \cup {k} |-> IF x = k THEN v ELSE d[x]]

EmptyMap == [x \in {} |-> None]

\* ------------------------------------------------------------------ dates
\* A date is a day number; its wire form is the ISO string of that day.
IsoTable == <<"2024-01-01", "2024-01-02">>

Dates == DOMAIN IsoTable

isoformat(d) == IsoTable[d]

fromisoformat(s) == CHOOSE d \in Dates : IsoTable[d] = s

\* -------------------------------------------------------- Account record
\* Account(): a fresh in-memory record; it has no identity until persisted.
Account == [name |-> None, email |-> None, address |-> None, phone_number |-> None]

\* deserialize(mapping): populates the attributes one after the other and
\* signals a validation error at the first required key that is absent.  The
\* result carries the record as it stands when deserialize returns or raises.
deserialize(account, data, today) ==
    IF ~has(data, "name")
    THEN [ok |-> FALSE, account |-> account]
    ELSE LET a1 == set(account, "name", data["name"]) IN
         IF ~has(data, "email")
         THEN [ok |-> FALSE, account |-> a1]
         ELSE LET a2 == set(a1, "email", data["email"])
                  a3 == set(a2, "address", get(data, "address"))
                  a4 == set(a3, "phone_number", get(data, "phone_number"))
                  a5 == set(a4, "date_joined",
                            IF has(data, "date_joined")
                            THEN fromisoformat(data["date_joined"])
                            ELSE today)
              IN [ok |-> TRUE, account |-> a5]

\* serialize(): attribute name -> JSON primitive (the date as an ISO string).
serialize(account) ==
    [id |-> account.id,
     name |-> account.name,
     email |-> account.email,
     address |-> account.address,
     phone_number |-> account.phone_number,
     date_joined |-> isoformat(account.date_joined)]

\* The database: the table of persisted rows in insertion order, the sequence
\* that hands out identities, and the session, which holds the in-memory
\* records a request has loaded or changed (keyed by the identity they were
\* loaded under) until the request ends.
Database(rows, seq, sess) == [store |-> rows, seq |-> seq, session |-> sess]

\* Committing writes the session's records over the rows they were loaded from.
commit(db) ==
    [db EXCEPT !.store =
        [i \in DOMAIN db.store |->
            IF db.store[i].id \in DOMAIN db.session
            THEN db.session[db.store[i].id]
            ELSE db.store[i]]]

\* The session is scoped to the request: what was not committed is dropped.
remove_session(db) == [db EXCEPT !.session = EmptyMap]

\* all(): every persisted record.
all(db) == db.store

\* find(id): the record with that identity; <<>> stands for the absent value.
find(db, id) ==
    LET hits == SelectSeq(db.store, LAMBDA row : row.id = id)
    IN IF id \in DOMAIN db.session THEN <<db.session[id]>>
       ELSE IF hits = <<>> THEN <<>> ELSE <<Head(hits)>>

\* The in-memory record loaded under identity id now reads account.
attach(db, id, account) == [db EXCEPT !.session = set(db.session, id, account)]

\* create(): the store assigns the next value of its sequence and adds the row.
create(db, account) ==
    LET row == set(account, "id", db.seq)
    IN commit([db EXCEPT !.store = Append(db.store, row), !.seq = db.seq + 1])

\* update(): overwrites the persisted row with the in-memory record's values.
update(db) == commit(db)

\* delete(): removes the persisted row of the record's identity.
delete(db, account) ==
    commit([db EXCEPT !.store = SelectSeq(db.store, LAMBDA row : row.id # account.id)])

\* ------------------------------------------------------ requests, responses
\* A word of a header as written: its letters, and whether it is written in
\* upper case.
Token(text, upper) == [text |-> text, upper |-> upper]

\* str.lower()
lower(token) == [token EXCEPT !.upper = FALSE]

\* No word: the part of a header that is not written.
NoToken == Token("", FALSE)

\* A Content-Type header as written: type "/" subtype ["+" suffix] [";" params];
\* type, subtype and suffix are words, in the case they are written in.
Header(type, subtype, suffix, params) ==
    [present |-> TRUE, type |-> type, subtype |-> subtype,
     suffix |-> suffix, params |-> params]

\* No Content-Type header: request.headers.get() gives None.
NoHeader ==
    [present |-> FALSE, type |-> NoToken, subtype |-> NoToken,
     suffix |-> NoToken, params |-> ""]

\* The string "application/json".
MEDIA_JSON == Header(Token("application", FALSE), Token("json", FALSE), NoToken, "")

ContentTypes ==
    {NoHeader,
     MEDIA_JSON,
     Header(Token("application", TRUE), Token("json", TRUE), NoToken, ""),
     Header(Token("application", FALSE), Token("json", FALSE), NoToken, "charset=utf-8"),
     Header(Token("application", FALSE), Token("vnd.api", FALSE), Token("json", TRUE), ""),
     Header(Token("text", FALSE), Token("html", FALSE), NoToken, "")}

\* Bodies that carry both required fields: one with nothing else, one with
\* every optional field and an id besides.
ValidProfiles ==
    {[name |-> "n1", email |-> "e1"],
     [name |-> "n2", email |-> "e2", id |-> 1, address |-> "a1",
      phone_number |-> "p1", date_joined |-> IsoTable[1]]}

\* Bodies that lack a required field.
InvalidProfiles ==
    {[name |-> "n2"],
     [email |-> "e2"]}

JsonBodies == ValidProfiles \cup InvalidProfiles

\* A request body either parses as JSON to a mapping or does not parse.
Unparseable == [parses |-> FALSE, data |-> EmptyMap]

Bodies == {[parses |-> TRUE, data |-> d] : d \in JsonBodies} \cup {Unparseable}

NoBody == [parses |-> FALSE, data |-> EmptyMap]

PathIds == 0 .. MaxId

Request(method, path, content_type, body) ==
    [method |-> method, path |-> path, content_type |-> content_type, body |-> body]

Requests ==
    {Request("GET", <<"health">>, NoHeader, NoBody),
     Request("GET", <<>>, NoHeader, NoBody),
     Request("GET", <<"accounts">>, NoHeader, NoBody)}
    \cup {Request("POST", <<"accounts">>, ct, b) : ct \in ContentTypes, b \in Bodies}
    \cup {Request("GET", <<"accounts", i>>, NoHeader, NoBody) : i \in PathIds}
    \cup {Request("PUT", <<"accounts", i>>, ct, b) :
              i \in PathIds, ct \in ContentTypes, b \in Bodies}
    \cup {Request("DELETE", <<"accounts", i>>, NoHeader, NoBody) : i \in PathIds}

NoRequest == Request("NONE", <<>>, NoHeader, NoBody)

NoHeaders == EmptyMap

Response(body, status, headers) == [status |-> status, body |-> body, headers |-> headers]

NoResponse == Response("", 0, NoHeaders)

\* The routing table: which handler serves a verb and a path.
Route(method, path) ==
    IF Len(path) = 0
    THEN IF method = "GET" THEN "index" ELSE "none"
    ELSE IF Len(path) = 1
    THEN IF path[1] = "health" /\ method = "GET" THEN "health"
         ELSE IF path[1] = "accounts" /\ method = "POST" THEN "create_accounts"
         ELSE IF path[1] = "accounts" /\ method = "GET" THEN "list_accounts"
         ELSE "none"
    ELSE IF Len(path) = 2 /\ path[1] = "accounts"
    THEN IF method = "GET" THEN "get_accounts"
         ELSE IF method = "PUT" THEN "update_accounts"
         ELSE IF method = "DELETE" THEN "delete_account"
         ELSE "none"
    ELSE "none"

\* url_for(endpoint, account_id=...): the path of the resource.
url_for(endpoint, account_id) ==
    IF endpoint = "get_accounts" THEN <<"accounts", account_id>> ELSE <<>>

\* abort(status, description): the error response.
abort(status, description) == Response([message |-> description], status, NoHeaders)

\* A validation error or an unparseable body, surfaced as 400.
bad_request == abort(HTTP_400_BAD_REQUEST, "Invalid Account")

not_found(account_id) ==
    abort(HTTP_404_NOT_FOUND, <<"Account with id [", account_id, "] could not be found.">>)

\* What a handler leaves behind: the response and the database.
Outcome(response, db) == [resp |-> response, db |-> db]

\* request.mimetype: the declared media type in lower case, without its
\* parameters; empty when no Content-Type is declared.
mimetype(r) ==
    [type |-> lower(r.content_type.type),
     subtype |-> lower(r.content_type.subtype),
     suffix |-> lower(r.content_type.suffix)]

\* request.is_json: the media type is application/json or application/*+json.
is_json(r) ==
    LET mt == mimetype(r) IN
    \/ mt = [type |-> Token("application", FALSE), subtype |-> Token("json", FALSE),
             suffix |-> NoToken]
    \/ (mt.type = Token("application", FALSE) /\ mt.suffix = Token("json", FALSE))

Json(data) == [ok |-> TRUE, data |-> data, error |-> NoResponse]

JsonError(response) == [ok |-> FALSE, data |-> EmptyMap, error |-> response]

\* request.get_json(): the set of answers the framework may give.  A body of
\* a non-JSON media type is refused with 415 by recent releases and with 400
\* by earlier ones (the oldest hand None to deserialize(), which rejects it
\* before it writes anything: 400 as well); a JSON body that does not parse
\* is a 400.
get_json(r) ==
    IF ~is_json(r)
    THEN {JsonError(abort(HTTP_415_UNSUPPORTED_MEDIA_TYPE, "Unsupported Media Type")),
          JsonError(bad_request)}
    ELSE IF ~r.body.parses
    THEN {JsonError(bad_request)}
    ELSE {Json(r.body.data)}

\* ------------------------------------------------------------------ handlers
health(r, db) == Outcome(Response([status |-> "OK"], HTTP_200_OK, NoHeaders), db)

index(r, db) ==
    Outcome(Response([name |-> "Account REST API Service", version |-> "1.0"],
                     HTTP_200_OK, NoHeaders), db)

\* check_content_type(media_type): TRUE when the request passes, FALSE when
\* the handler aborts with 415.
\* Variant: a request that declares no media type passes the check.
check_content_type_lenient(r, media_type) ==
    \/ ~r.content_type.present
    \/ r.content_type = media_type

check_content_type(r, media_type) ==
    /\ r.content_type.present
    /\ r.content_type = media_type

unsupported_media_type(media_type) ==
    abort(HTTP_415_UNSUPPORTED_MEDIA_TYPE, <<"Content-Type must be ", media_type>>)

\* Variant: the Location is built from the sequence after it has advanced.
create_accounts_stale_location(r, db, today) ==
    IF ~check_content_type(r, MEDIA_JSON)
    THEN {Outcome(unsupported_media_type(MEDIA_JSON), db)}
    ELSE {
    IF ~json.ok
    THEN Outcome(json.error, db)
    ELSE LET d == deserialize(Account, json.data, today) IN
         IF ~d.ok
         THEN Outcome(bad_request, db)
         ELSE LET db2 == create(db, d.account)
                  account == set(d.account, "id", db.seq)
              IN Outcome(Response(serialize(account), HTTP_201_CREATED,
                                  [Location |-> url_for("get_accounts", db2.seq)]), db2)
    : json \in get_json(r)}

\* Variant: the record is persisted although its validation failed.
create_accounts_unvalidated(r, db, today) ==
    IF ~check_content_type(r, MEDIA_JSON)
    THEN {Outcome(unsupported_media_type(MEDIA_JSON), db)}
    ELSE {
    IF ~json.ok
    THEN Outcome(json.error, db)
    ELSE LET d == deserialize(Account, json.data, today) IN
         IF ~d.ok
         THEN Outcome(bad_request, create(db, set(d.account, "date_joined", today)))
         ELSE LET db2 == create(db, d.account)
                  account == set(d.account, "id", db.seq)
              IN Outcome(Response(serialize(account), HTTP_201_CREATED,
                                  [Location |-> url_for("get_accounts", account.id)]), db2)
    : json \in get_json(r)}

create_accounts(r, db, today) ==
    IF ~check_content_type(r, MEDIA_JSON)
    THEN {Outcome(unsupported_media_type(MEDIA_JSON), db)}
    ELSE {
    IF ~json.ok
    THEN Outcome(json.error, db)
    ELSE LET d == deserialize(Account, json.data, today) IN
         IF ~d.ok
         THEN Outcome(bad_request, db)
         ELSE LET db2 == create(db, d.account)
                  account == set(d.account, "id", db.seq)
                  message == serialize(account)
                  location_url == url_for("get_accounts", account.id)
              IN Outcome(Response(message, HTTP_201_CREATED,
                                  [Location |-> location_url]), db2)
    : json \in get_json(r)}

\* Variant: the listing leaves out the most recent record.
list_accounts_drop_last(r, db) ==
    LET accounts == all(db)
        results == [i \in 1 .. Len(accounts) - 1 |-> serialize(accounts[i])]
    IN Outcome(Response(results, HTTP_200_OK, NoHeaders), db)

list_accounts(r, db) ==
    LET accounts == all(db)
        results == [i \in DOMAIN accounts |-> serialize(accounts[i])]
    IN Outcome(Response(results, HTTP_200_OK, NoHeaders), db)

\* Variant: reading a record also removes it.
get_accounts_consuming(r, db) ==
    LET account_id == r.path[2]
        account == find(db, account_id)
    IN IF account = <<>>
       THEN Outcome(not_found(account_id), db)
       ELSE Outcome(Response(serialize(account[1]), HTTP_200_OK, NoHeaders),
                    delete(db, account[1]))

get_accounts(r, db) ==
    LET account_id == r.path[2]
        account == find(db, account_id)
    IN IF account = <<>>
       THEN Outcome(not_found(account_id), db)
       ELSE Outcome(Response(serialize(account[1]), HTTP_200_OK, NoHeaders), db)

\* Variant: the body is validated before the record is looked up.
update_accounts_validate_first(r, db, today) ==
    LET account_id == r.path[2]
        account == find(db, account_id)
    IN {
       IF ~json.ok
       THEN Outcome(json.error, db)
       ELSE IF ~deserialize(Account, json.data, today).ok
       THEN Outcome(bad_request, db)
       ELSE IF account = <<>>
       THEN Outcome(not_found(account_id), db)
       ELSE LET d == deserialize(account[1], json.data, today)
            IN Outcome(Response(serialize(d.account), HTTP_200_OK, NoHeaders),
                       update(attach(db, account_id, d.account)))
       : json \in get_json(r)}

\* Variant: the handler also takes the identity from the body.
update_accounts_takes_body_id(r, db, today) ==
    LET account_id == r.path[2]
        account == find(db, account_id)
    IN IF account = <<>>
       THEN {Outcome(not_found(account_id), db)}
       ELSE {
       IF ~json.ok
       THEN Outcome(json.error, db)
       ELSE LET d == deserialize(account[1], json.data, today)
                renamed == IF has(json.data, "id")
                           THEN set(d.account, "id", json.data["id"])
                           ELSE d.account
                db1 == attach(db, account_id, renamed)
            IN IF ~d.ok
               THEN Outcome(bad_request, db1)
               ELSE Outcome(Response(serialize(renamed), HTTP_200_OK, NoHeaders),
                            update(db1))
       : json \in get_json(r)}

\* Variant: update() runs whether or not deserialize() succeeded.
update_accounts_commit_on_error(r, db, today) ==
    LET account_id == r.path[2]
        account == find(db, account_id)
    IN IF account = <<>>
       THEN {Outcome(not_found(account_id), db)}
       ELSE {
       IF ~json.ok
       THEN Outcome(json.error, db)
       ELSE LET d == deserialize(account[1], json.data, today)
                db1 == attach(db, account_id, d.account)
            IN IF ~d.ok
               THEN Outcome(bad_request, update(db1))
               ELSE Outcome(Response(serialize(d.account), HTTP_200_OK, NoHeaders),
                            update(db1))
       : json \in get_json(r)}

update_accounts(r, db, today) ==
    LET account_id == r.path[2]
        account == find(db, account_id)
    IN IF account = <<>>
       THEN {Outcome(not_found(account_id), db)}
       ELSE {
       IF ~json.ok
       THEN Outcome(json.error, db)
       ELSE LET d == deserialize(account[1], json.data, today)
                db1 == attach(db, account_id, d.account)
            IN IF ~d.ok
               THEN Outcome(bad_request, db1)
               ELSE Outcome(Response(serialize(d.account), HTTP_200_OK, NoHeaders),
                            update(db1))
       : json \in get_json(r)}

\* Variant: the handler answers 204 without calling delete().
delete_account_no_delete(r, db) ==
    LET account_id == r.path[2]
        account == find(db, account_id)
    IN IF account = <<>>
       THEN Outcome(not_found(account_id), db)
       ELSE Outcome(Response("", HTTP_204_NO_CONTENT, NoHeaders), db)

delete_account(r, db) ==
    LET account_id == r.path[2]
        account == find(db, account_id)
    IN IF account = <<>>
       THEN Outcome(not_found(account_id), db)
       ELSE Outcome(Response("", HTTP_204_NO_CONTENT, NoHeaders), delete(db, account[1]))

\* --------------------------------------------------------------------- state
VARIABLES
    store,      \* the persisted rows, in insertion order
    nextId,     \* the next value of the store's identity sequence
    session,    \* the in-memory records of the request being served
    req,        \* the last request served
    resp,       \* the response it got
    nCreated,   \* history: how many requests were answered 201
    nDeleted,   \* history: how many requests were answered 204
    deletedIds, \* history: the ids whose DELETE was answered 204
    phase       \* "idle", or "served": a handler has returned, the request
                \* has not ended yet

vars == <<store, nextId, session, req, resp, nCreated, nDeleted, deletedIds, phase>>

Db == Database(store, nextId, session)

Init ==
    /\ store = <<>>
    /\ nextId = 1
    /\ session = EmptyMap
    /\ req = NoRequest
    /\ resp = NoResponse
    /\ nCreated = 0
    /\ nDeleted = 0
    /\ deletedIds = {}
    /\ phase = "idle"

\* The handler served request r with outcome out.
Serve(r, out) ==
    /\ phase = "idle"
    /\ phase' = "served"
    /\ req' = r
    /\ resp' = out.resp
    /\ store' = out.db.store
    /\ nextId' = out.db.seq
    /\ session' = out.db.session
    /\ nCreated' = IF out.resp.status = HTTP_201_CREATED THEN nCreated + 1 ELSE nCreated
    /\ nDeleted' = IF out.resp.status = HTTP_204_NO_CONTENT THEN nDeleted + 1 ELSE nDeleted
    /\ deletedIds' = IF out.resp.status = HTTP_204_NO_CONTENT
                     THEN deletedIds \cup {r.path[2]}
                     ELSE deletedIds

\* The request ends: the framework releases the request's session.
RequestTeardown ==
    /\ phase = "served"
    /\ phase' = "idle"
    /\ session' = remove_session(Db).session
    /\ UNCHANGED <<store, nextId, req, resp, nCreated, nDeleted, deletedIds>>

\* The requests the routing table hands to each handler.
Routed(handler) == {r \in Requests : Route(r.method, r.path) = handler}

HealthRequests == Routed("health")

IndexRequests == Routed("index")

CreateRequests == Routed("create_accounts")

ListRequests == Routed("list_accounts")

GetRequests == Routed("get_accounts")

UpdateRequests == Routed("update_accounts")

DeleteRequests == Routed("delete_account")

Health == \E r \in HealthRequests : Serve(r, health(r, Db))

Index == \E r \in IndexRequests : Serve(r, index(r, Db))

CreateAccounts ==
    \E r \in CreateRequests, today \in Dates :
        \E out \in create_accounts(r, Db, today) :
            /\ out.db.seq <= MaxId + 1
            /\ Serve(r, out)

ListAccounts == \E r \in ListRequests : Serve(r, list_accounts(r, Db))

GetAccounts == \E r \in GetRequests : Serve(r, get_accounts(r, Db))

UpdateAccounts ==
    \E r \in UpdateRequests, today \in Dates :
        \E out \in update_accounts(r, Db, today) : Serve(r, out)

DeleteAccount == \E r \in DeleteRequests : Serve(r, delete_account(r, Db))

Next ==
    \/ Health
    \/ Index
    \/ CreateAccounts
    \/ ListAccounts
    \/ GetAccounts
    \/ UpdateAccounts
    \/ DeleteAccount
    \/ RequestTeardown

Spec == Init /\ [][Next]_vars

\* ------------------------------------------------------------- vocabulary
Handler(r) == Route(r.method, r.path)

Ids(rows) == {rows[i].id : i \in DOMAIN rows}

IdSeq(rows) == [i \in DOMAIN rows |-> rows[i].id]

Row(rows, id) == Head(SelectSeq(rows, LAMBDA row : row.id = id))

Without(rows, id) == SelectSeq(rows, LAMBDA row : row.id # id)

HasRequired(r) == r.body.parses /\ has(r.body.data, "name") /\ has(r.body.data, "email")

\* The step is a handler serving the request req'.
Handled == phase = "idle" /\ phase' = "served"

TypeOK ==
    /\ nextId \in 1 .. MaxId + 1
    /\ phase \in {"idle", "served"}
    /\ DOMAIN session \subseteq Ids(store)
    /\ req \in Requests \cup {NoRequest}
    /\ Ids(store) \subseteq 1 .. MaxId

ById == {"get_accounts", "update_accounts", "delete_account"}

ReadOnly == {"health", "index", "list_accounts", "get_accounts"}

DataFields == {"name", "email", "address", "phone_number", "date_joined"}

CreateValid(r) ==
    /\ Handler(r) = "create_accounts"
    /\ r.content_type = MEDIA_JSON
    /\ HasRequired(r)

ListRequest == Request("GET", <<"accounts">>, NoHeader, NoBody)

GetRequest(id) == Request("GET", <<"accounts", id>>, NoHeader, NoBody)

\* ----------------------------------------------------------------- C1
C1_CreateStep ==
    (Handled /\ CreateValid(req')) =>
        /\ resp'.status = HTTP_201_CREATED
        /\ Len(store') = Len(store) + 1
        /\ SubSeq(store', 1, Len(store)) = store
        /\ store'[Len(store')].id = resp'.body.id
        /\ resp'.body.id \notin Ids(store)
        /\ DOMAIN resp'.headers = {"Location"}
        /\ resp'.headers.Location = <<"accounts", resp'.body.id>>
        /\ Route("GET", resp'.headers.Location) = "get_accounts"

C1_GetStep ==
    (/\ Handled
     /\ CreateValid(req)
     /\ resp.status = HTTP_201_CREATED
     /\ Handler(req') = "get_accounts"
     /\ req'.path = resp.headers.Location) =>
        /\ resp'.status = HTTP_200_OK
        /\ resp'.body.id = resp.body.id
        /\ \A f \in DataFields : resp'.body[f] = resp.body[f]

\* C1: a POST /accounts with Content-Type application/json and the required
\* fields answers 201, adds exactly one row under an identity no persisted row
\* had, and returns a Location naming GET /accounts/{id}; a GET on that
\* location right afterwards answers 200 with the same name, email, address,
\* phone_number and date_joined as the 201 body.
C1_CreateThenGet == [][C1_CreateStep /\ C1_GetStep]_vars

C1_Witness ==
    /\ CreateValid(req)
    /\ resp.status = HTTP_201_CREATED
    /\ Len(store) >= 2
    /\ ~has(req.body.data, "date_joined")

\* ----------------------------------------------------------------- C2
C2_Step ==
    (Handled /\ Handler(req') = "create_accounts" /\ req'.content_type # MEDIA_JSON) =>
        /\ resp'.status = HTTP_415_UNSUPPORTED_MEDIA_TYPE
        /\ store' = store
        /\ nextId' = nextId

\* C2: a POST /accounts whose Content-Type is absent or is not exactly
\* application/json answers 415 whatever the body is (valid, lacking required
\* fields, unparseable), and creates no account.
C2_UnsupportedMediaType == [][C2_Step]_vars

C2_Witness ==
    /\ Handler(req) = "create_accounts"
    /\ req.content_type = NoHeader
    /\ ~req.body.parses
    /\ resp.status = HTTP_415_UNSUPPORTED_MEDIA_TYPE
    /\ store # <<>>

\* ----------------------------------------------------------------- C3
C3_Step ==
    (/\ Handled
     /\ Handler(req') = "create_accounts"
     /\ req'.content_type = MEDIA_JSON
     /\ req'.body.parses
     /\ ~HasRequired(req')) =>
        /\ resp'.status = HTTP_400_BAD_REQUEST
        /\ store' = store
        /\ list_accounts(ListRequest, Db').resp = list_accounts(ListRequest, Db).resp

\* C3: a POST /accounts with Content-Type application/json whose body lacks
\* name or email answers 400 and leaves the persisted accounts as they were.
C3_BadRequestCreatesNothing == [][C3_Step]_vars

C3_Witness ==
    /\ Handler(req) = "create_accounts"
    /\ req.content_type = MEDIA_JSON
    /\ req.body.parses
    /\ has(req.body.data, "name")
    /\ ~has(req.body.data, "email")
    /\ resp.status = HTTP_400_BAD_REQUEST
    /\ store # <<>>

\* ----------------------------------------------------------------- C4
C4_Step ==
    (Handled /\ Handler(req') \in ById /\ req'.path[2] \notin Ids(store)) =>
        /\ resp'.status = HTTP_404_NOT_FOUND
        /\ store' = store

\* C4: GET, PUT and DELETE on an id that no persisted account has answer 404
\* and leave the store unchanged; a PUT there answers 404 even when its body
\* lacks required fields.
C4_NotFound == [][C4_Step]_vars

C4_Witness ==
    /\ Handler(req) = "update_accounts"
    /\ ~HasRequired(req)
    /\ req.path[2] \notin Ids(store)
    /\ resp.status = HTTP_404_NOT_FOUND
    /\ store # <<>>

\* ----------------------------------------------------------------- C5
C5_DeleteStep ==
    (Handled /\ Handler(req') = "delete_account" /\ req'.path[2] \in Ids(store)) =>
        /\ resp'.status = HTTP_204_NO_CONTENT
        /\ resp'.body = ""
        /\ store' = Without(store, req'.path[2])

C5_LaterStep ==
    (Handled /\ Handler(req') \in ById /\ req'.path[2] \in deletedIds) =>
        /\ resp'.status = HTTP_404_NOT_FOUND
        /\ req'.path[2] \notin Ids(store')

\* C5: DELETE on a persisted account answers 204 with an empty body and
\* removes exactly that row; from then on the id is absent, and every GET, PUT
\* or DELETE on it answers 404.
C5_DeleteIsPermanent ==
    /\ [](deletedIds \cap Ids(store) = {})
    /\ [][C5_DeleteStep /\ C5_LaterStep]_vars

C5_Witness ==
    /\ Handler(req) = "delete_account"
    /\ req.path[2] \in deletedIds
    /\ resp.status = HTTP_404_NOT_FOUND
    /\ store # <<>>
    /\ nextId > MaxId

\* ----------------------------------------------------------------- C6
PutValid(r) ==
    /\ Handler(r) = "update_accounts"
    /\ HasRequired(r)

C6_Updated ==
    /\ resp'.status = HTTP_200_OK
    /\ resp'.body.id = req'.path[2]
    /\ resp'.body.name = req'.body.data["name"]
    /\ resp'.body.email = req'.body.data["email"]
    /\ IdSeq(store') = IdSeq(store)
    /\ resp'.body = serialize(Row(store', req'.path[2]))
    /\ \A i \in DOMAIN store : store[i].id # req'.path[2] => store'[i] = store[i]

C6_AnyMediaTypeStep ==
    (Handled /\ PutValid(req') /\ req'.path[2] \in Ids(store)) => C6_Updated

C6_GetStep ==
    (/\ Handled
     /\ Handler(req) = "update_accounts"
     /\ resp.status = HTTP_200_OK
     /\ Handler(req') = "get_accounts"
     /\ req'.path = req.path) =>
        /\ resp'.status = HTTP_200_OK
        /\ resp'.body.name = req.body.data["name"]
        /\ resp'.body.email = req.body.data["email"]

\* C6: PUT on a persisted account with a body carrying name and email answers
\* 200 with the serialized updated account; a GET right afterwards shows the
\* new name and email; the account's identity and every other row are
\* unchanged.  update_accounts() does not answer so when the request declares
\* no JSON media type: request.get_json() refuses the body, and the handler
\* fails before deserialize().
C6_UpdateWhateverMediaType == [][C6_AnyMediaTypeStep /\ C6_GetStep]_vars

\* ----------------------------------------------------------------- C7
\* C7: starting from the empty store, GET /accounts answers 200 with one
\* serialized entry per persisted account: as many entries as 201 answers
\* minus 204 answers, and with exactly the ids on which GET /accounts/{id}
\* answers 200.
C7_ListMatchesStore ==
    LET listed == list_accounts(ListRequest, Db).resp
        ids == {listed.body[i].id : i \in DOMAIN listed.body}
    IN /\ listed.status = HTTP_200_OK
       /\ Len(listed.body) = nCreated - nDeleted
       /\ Cardinality(ids) = Len(listed.body)
       /\ ids = {i \in PathIds : get_accounts(GetRequest(i), Db).resp.status = HTTP_200_OK}
       /\ Handler(req) = "list_accounts" => resp = listed

C7_Witness ==
    /\ Handler(req) = "list_accounts"
    /\ resp.status = HTTP_200_OK
    /\ nCreated = MaxId
    /\ nDeleted = 1
    /\ Len(resp.body) = MaxId - 1

\* ----------------------------------------------------------------- C8
C8_Unique == \A i, j \in DOMAIN store : i # j => store[i].id # store[j].id

C8_Step ==
    /\ Handler(req') \notin {"create_accounts", "delete_account"} =>
           IdSeq(store') = IdSeq(store)
    /\ Handler(req') = "create_accounts" =>
           \/ IdSeq(store') = IdSeq(store)
           \/ /\ Len(store') = Len(store) + 1
              /\ SubSeq(IdSeq(store'), 1, Len(store)) = IdSeq(store)
              /\ store'[Len(store')].id \notin Ids(store)
    /\ Handler(req') = "delete_account" =>
           IdSeq(store') = IdSeq(Without(store, req'.path[2]))

\* C8: no two persisted accounts share an identity, and no request changes
\* the identity of a row that stays persisted; a PUT whose body carries an id
\* other than the one in the path leaves the identities as they were.
C8_IdentityUniqueAndStable == []C8_Unique /\ [][C8_Step]_vars

C8_Witness ==
    /\ Handler(req) = "update_accounts"
    /\ resp.status = HTTP_200_OK
    /\ has(req.body.data, "id")
    /\ req.body.data["id"] # req.path[2]
    /\ req.body.data["id"] \in Ids(store)

\* ----------------------------------------------------------------- C9
PutInvalid(r) ==
    /\ Handler(r) = "update_accounts"
    /\ ~HasRequired(r)

\* The failing PUT itself: it is refused and no row changes.
C9_FailStep ==
    (Handled /\ PutInvalid(req') /\ req'.path[2] \in Ids(store)) =>
        /\ resp'.status \in {HTTP_400_BAD_REQUEST, HTTP_415_UNSUPPORTED_MEDIA_TYPE}
        /\ is_json(req') => resp'.status = HTTP_400_BAD_REQUEST
        /\ store' = store

\* Every step, the end of a request included, leaves a row as it was unless
\* the step is a PUT or a DELETE on that very row.
C9_OthersStep ==
    \A id \in Ids(store) :
        \/ /\ Handled
           /\ Handler(req') \in {"update_accounts", "delete_account"}
           /\ req'.path[2] = id
        \/ /\ id \in Ids(store')
           /\ Row(store', id) = Row(store, id)

\* Every GET answers with the persisted rows, never with a record a failed
\* PUT had written to.
C9_ReadStep ==
    /\ (Handled /\ Handler(req') = "get_accounts" /\ req'.path[2] \in Ids(store)) =>
           resp' = Response(serialize(Row(store, req'.path[2])), HTTP_200_OK, NoHeaders)
    /\ (Handled /\ Handler(req') = "list_accounts") =>
           resp' = Response([i \in DOMAIN store |-> serialize(store[i])],
                            HTTP_200_OK, NoHeaders)

C10_Step ==
    (Handled /\ Handler(req') \in ReadOnly) =>
        /\ store' = store
        /\ nextId' = nextId
        /\ Handler(req') = "health" =>
               resp' = Response([status |-> "OK"], HTTP_200_OK, NoHeaders)
        /\ Handler(req') = "index" =>
               /\ resp'.status = HTTP_200_OK
               /\ resp'.body = [name |-> "Account REST API Service", version |-> "1.0"]
        /\ (Handler(req) \in ReadOnly /\ req' = req) => resp' = resp

\* C10: GET /health, GET /, GET /accounts and GET /accounts/{id} leave the
\* store unchanged, GET /health always answers 200 {"status": "OK"}, GET /
\* always answers 200 with the service's name and version "1.0", and a GET
\* repeated with no write in between gets the same answer.
C10_ReadsAreFrameAndPure == [][C10_Step]_vars

C10_Witness ==
    /\ Handler(req) = "get_accounts"
    /\ resp.status = HTTP_200_OK
    /\ Len(store) >= 2

====
